---------------------------- MODULE Spec2Model ----------------------------
(***************************************************************************)
(* Gaussian-process prediction utilities of safe-exploration:              *)
(*   gp_ellipsoidal_reachability/gp_models_utils_casadi.py  (casadi)       *)
(*   safe_exploration/ssm_pytorch/gaussian_process.py       (gpytorch)     *)
(*                                                                         *)
(* Numbers are integers.  A matrix is a sequence of rows, each row a       *)
(* sequence of entries; the shape of a tensor is a sequence of sizes.      *)
(* An optional argument is None (<<>>) or Some(v) (<<v>>).                 *)
(***************************************************************************)
EXTENDS Integers, Sequences, FiniteSets, TLC

\* ------------------------------------------------------------------ bounds
\* largest number of single-output GPs (columns of beta)
MaxGps == 2
\* largest number of prediction points (rows of x)
MaxPred == 2
\* largest number of rows / columns / outputs of a torch tensor
MaxSize == 3

None == <<>>
Some(v) == <<v>>

\* ------------------------------------------------- casadi matrix algebra
Rows(M) == Len(M)
Cols(M) == IF Len(M) = 0 THEN 0 ELSE Len(M[1])
IsScalar(M) == Rows(M) = 1 /\ Cols(M) = 1

\* the sequence <<f[1], ..., f[n]>>, every entry evaluated once
RECURSIVE SeqOf(_, _)
SeqOf(f, n) == IF n = 0 THEN <<>> ELSE Append(SeqOf(f, n - 1), f[n])

\* the (r x c) matrix with entries f[i, j]
Mat(r, c, f) == SeqOf([i \in 1..r |-> SeqOf([j \in 1..c |-> f[i, j]], c)], r)
Transpose(M) == Mat(Cols(M), Rows(M), [j \in 1..Cols(M), i \in 1..Rows(M) |-> M[i][j]])

RECURSIVE SumTo(_, _)
SumTo(f, n) == IF n = 0 THEN 0 ELSE f[n] + SumTo(f, n - 1)

\* casadi.mtimes: the matrix product
mtimes(A, B) ==
    Mat(Rows(A), Cols(B), [i \in 1..Rows(A), j \in 1..Cols(B) |->
        SumTo(SeqOf([k \in 1..Cols(A) |-> A[i][k] * B[k][j]], Cols(A)), Cols(A))])

\* casadi.sum2: the sum of every row, an (n x 1) column
sum2(M) == Mat(Rows(M), 1, [i \in 1..Rows(M), j \in {1} |-> SumTo(M[i], Cols(M))])

\* casadi.repmat(M, n, m): n copies of M down, m copies across
repmat(M, n, m) ==
    Mat(n * Rows(M), m * Cols(M), [i \in 1..(n * Rows(M)), j \in 1..(m * Cols(M)) |->
        M[((i - 1) % Rows(M)) + 1][((j - 1) % Cols(M)) + 1]])

\* casadi.horzcat(A, B); the Python list [] is the empty 0 x 0 matrix
horzcat(A, B) ==
    IF Len(A) = 0 THEN B
    ELSE IF Len(B) = 0 THEN A
    ELSE SeqOf([i \in 1..Rows(A) |-> A[i] \o B[i]], Rows(A))

\* casadi.vertcat(A, B)
vertcat(A, B) == A \o B

\* An elementwise binary operation of casadi takes operands of one shape; a
\* 1 x 1 operand is applied to every entry of the other, and of two operands
\* with equal row counts the narrower is repeated across when the wider is a
\* horizontal multiple of it.  Anything else is a dimension mismatch.
Conformable(A, B) ==
    \/ IsScalar(A) \/ IsScalar(B)
    \/ /\ Rows(A) = Rows(B) /\ Cols(A) > 0 /\ Cols(B) > 0
       /\ (Cols(A) % Cols(B) = 0 \/ Cols(B) % Cols(A) = 0)
Max(a, b) == IF a >= b THEN a ELSE b
\* entry (i, j) of operand M once brought to the common shape
At(M, i, j) == IF IsScalar(M) THEN M[1][1] ELSE M[i][((j - 1) % Cols(M)) + 1]

Times(A, B) ==
    IF ~Conformable(A, B) THEN <<<<"Dimension mismatch">>>>
    ELSE Mat(Max(Rows(A), Rows(B)), Max(Cols(A), Cols(B)),
             [i \in 1..Max(Rows(A), Rows(B)), j \in 1..Max(Cols(A), Cols(B)) |->
                 At(A, i, j) * At(B, i, j)])
Minus(A, B) ==
    IF ~Conformable(A, B) THEN <<<<"Dimension mismatch">>>>
    ELSE Mat(Max(Rows(A), Rows(B)), Max(Cols(A), Cols(B)),
             [i \in 1..Max(Rows(A), Rows(B)), j \in 1..Max(Cols(A), Cols(B)) |->
                 At(A, i, j) - At(B, i, j)])
Divide(A, B) ==
    IF ~Conformable(A, B) THEN <<<<"Dimension mismatch">>>>
    ELSE Mat(Max(Rows(A), Rows(B)), Max(Cols(A), Cols(B)),
             [i \in 1..Max(Rows(A), Rows(B)), j \in 1..Max(Cols(A), Cols(B)) |->
                 At(A, i, j) \div At(B, i, j)])

\* casadi.sqrt, entrywise, on the integers (the floor of the root)
isqrt(v) == CHOOSE s \in 0..v : s * s <= v /\ v < (s + 1) * (s + 1)
sqrt(M) == Mat(Rows(M), Cols(M), [i \in 1..Rows(M), j \in 1..Cols(M) |-> isqrt(M[i][j])])

\* exp(-0.5 * k) for k = 0, 1, 2, ... in thousandths
ExpTable == <<1000, 607, 368, 223, 135, 82, 50, 30, 18, 11, 7, 4, 2, 2, 1, 1>>
ExpUnit == ExpTable[1]
ExpNegHalf(k) == IF k + 1 <= Len(ExpTable) THEN ExpTable[k + 1] ELSE 0

\* a (1 x d) row vector as hyp[...].reshape(1,-1) gives it
reshape_row(v) == <<v>>

\* ----------------------------------------------------------------- kernels
\* line 81: r2 = -2 * mtimes(x, y.T) + repmat(x1sq, 1, n_y) + repmat(x2sq.T, n_x, 1)
r2_of(xy, x1rep, x2rep) ==
    Mat(Rows(xy), Cols(xy), [i \in 1..Rows(xy), j \in 1..Cols(xy) |->
        (-2) * xy[i][j] + x1rep[i][j] + x2rep[i][j]])

\* _unscaled_dist: the matrix of distances between the rows of x and of y
_unscaled_dist(x, y) ==
    sqrt(r2_of(mtimes(x, Transpose(y)),
               repmat(sum2(Times(x, x)), 1, Rows(y)),
               repmat(Transpose(sum2(Times(y, y))), Rows(x), 1)))

\* SX(T,) is SX(T): the 1 x 1 matrix holding the number T
SX1(T) == <<<<T>>>>

\* ret[:] = value: every entry of ret is overwritten
AssignAll(ret, value) ==
    Mat(Rows(ret), Cols(ret), [i \in 1..Rows(ret), j \in 1..Cols(ret) |-> value])

\* line 38: precision * exp(-0.5 * r**2)
rbf_of(precision, r) ==
    Mat(Rows(r), Cols(r), [i \in 1..Rows(r), j \in 1..Cols(r) |->
        (precision * ExpNegHalf(r[i][j] * r[i][j])) \div ExpUnit])

\* lines 34-35: repmat(lenscales.reshape(1,-1), n)
lens_of(hyp, pts) == repmat(reshape_row(hyp.rbf_lengthscales), Rows(pts), 1)

\* the second point set of a kernel call: y, or x when y is None
second_of(x, y) == IF y = None THEN x ELSE y[1]

\* _k_rbf
_k_rbf(x, hyp, y, diag_only) ==
    IF diag_only
    THEN AssignAll(SX1(Rows(x)), hyp.rbf_variance)
    ELSE rbf_of(hyp.rbf_variance,
                _unscaled_dist(Divide(x, lens_of(hyp, x)),
                               Divide(second_of(x, y), lens_of(hyp, second_of(x, y)))))

\* lines 58 and 64: sqrt(repmat(var.reshape(1,-1), n))
var_of(hyp, pts) == sqrt(repmat(reshape_row(hyp.lin_variances), Rows(pts), 1))

\* _k_lin (diag_only is accepted and never read)
_k_lin(x, hyp, y, diag_only) ==
    mtimes(Times(x, var_of(hyp, x)),
           Transpose(Times(second_of(x, y), var_of(hyp, second_of(x, y)))))

\* _k_prod_lin_rbf
_k_prod_lin_rbf(x, hyp, y, diag_only) ==
    Times(_k_rbf(x, hyp, y, diag_only), _k_lin(x, hyp, y, diag_only))

\* _get_kernel_function: the kernel function, or the ValueError it raises
_get_kernel_function(kern_type) ==
    IF kern_type = "rbf" THEN "_k_rbf"
    ELSE IF kern_type = "prod_lin_rbf" THEN "_k_prod_lin_rbf"
    ELSE "ValueError"

\* a call kern(x, hyp, y = ..., diag_only = ...) of a kernel function
kern_call(kern, x, hyp, y, diag_only) ==
    IF kern = "_k_rbf" THEN _k_rbf(x, hyp, y, diag_only)
    ELSE _k_prod_lin_rbf(x, hyp, y, diag_only)

\* ----------------------------------------------------------------- gp_pred
\* line 93: pred_mu = mtimes(k_star, beta)
pred_mu_of(k_star, beta) == mtimes(k_star, beta)

\* line 101 with the inverse kernel matrix left out of the product
pred_sigm_no_inverse(k_expl_var, k_star, k_inv_training) ==
    Minus(k_expl_var, sum2(Times(k_star, k_star)))

\* line 101: pred_sigm = k_expl_var - sum2(mtimes(k_star, k_inv_training) * k_star)
pred_sigm_of(k_expl_var, k_star, k_inv_training) ==
    Minus(k_expl_var, sum2(Times(mtimes(k_star, k_inv_training), k_star)))

\* lines 93-105, for k_star (line 92) and k_expl_var (line 100, evaluated only
\* where line 100 is reached); exc is the exception raised ("None": it returns)
gp_pred_from(k_star, k_expl_var, beta, k_inv_training, pred_var) ==
    IF pred_var
    THEN IF k_inv_training = None
         THEN [exc |-> "ValueError", pred_mu |-> <<>>, pred_sigm |-> <<>>]
         ELSE [exc |-> "None", pred_mu |-> pred_mu_of(k_star, beta),
               pred_sigm |-> pred_sigm_of(k_expl_var, k_star, k_inv_training[1])]
    ELSE [exc |-> "None", pred_mu |-> pred_mu_of(k_star, beta), pred_sigm |-> <<>>]

\* gp_pred with the inverse kernel matrix demanded whether or not pred_var
gp_pred_always_inverse(x, kern, beta, x_train, hyp, k_inv_training, pred_var) ==
    IF k_inv_training = None
    THEN [exc |-> "ValueError", pred_mu |-> <<>>, pred_sigm |-> <<>>]
    ELSE gp_pred_from(kern_call(kern, x, hyp, Some(x_train), FALSE),
                      kern_call(kern, x, hyp, None, TRUE),
                      beta, k_inv_training, pred_var)

\* gp_pred
gp_pred(x, kern, beta, x_train, hyp, k_inv_training, pred_var) ==
    gp_pred_from(kern_call(kern, x, hyp, Some(x_train), FALSE),
                 kern_call(kern, x, hyp, None, TRUE),
                 beta, k_inv_training, pred_var)

\* ------------------------------------------------ derivative of the mean
\* d k_rbf(x_p, y_j) / d x[p][k] = k_rbf(x_p, y_j) * (y[j][k] - x[p][k]) / l_k^2
d_k_rbf(Krbf, x, hyp, y, p, j, k) ==
    (Krbf[p][j] * (y[j][k] - x[p][k]))
        \div (hyp.rbf_lengthscales[k] * hyp.rbf_lengthscales[k])

\* d k_lin(x_p, y_j) / d x[p][k] = sqrt(var_k) * sqrt(var_k) * y[j][k]
d_k_lin(hyp, y, j, k) ==
    isqrt(hyp.lin_variances[k]) * isqrt(hyp.lin_variances[k]) * y[j][k]

\* the derivative of the kernel function kern, by the product rule
d_kern(kern, Krbf, Klin, x, hyp, y, p, j, k) ==
    IF kern = "_k_rbf" THEN d_k_rbf(Krbf, x, hyp, y, p, j, k)
    ELSE d_k_rbf(Krbf, x, hyp, y, p, j, k) * Klin[p][j]
         + Krbf[p][j] * d_k_lin(hyp, y, j, k)

\* the jacobian of mtimes(k_star, beta) for the kernel matrices Krbf and Klin:
\* row p is the p-th mean, column (k - 1) * n_pred + q is inp[q][k]
jacobian_from(Krbf, Klin, x, kern, beta, x_train, hyp) ==
    Mat(Rows(x), Rows(x) * Cols(x), [p \in 1..Rows(x), c \in 1..(Rows(x) * Cols(x)) |->
        IF p # ((c - 1) % Rows(x)) + 1 THEN 0
        ELSE SumTo([j \in 1..Rows(x_train) |->
                 beta[j][1] * d_kern(kern, Krbf, Klin, x, hyp, x_train, p, j,
                                     ((c - 1) \div Rows(x)) + 1)],
                 Rows(x_train))])

\* pred_func.jacobian("inp", "mu_1") at inp = x (lines 163-165), as the autodiff
\* engine derives it from the expression of the mean
jacobian_mu(x, kern, beta, x_train, hyp) ==
    jacobian_from(_k_rbf(x, hyp, Some(x_train), FALSE),
                  _k_lin(x, hyp, Some(x_train), FALSE),
                  x, kern, beta, x_train, hyp)

\* beta[:, i]: column i of beta as an (n x 1) matrix
Column(M, i) == Mat(Rows(M), 1, [r \in 1..Rows(M), c \in {1} |-> M[r][i]])

\* ------------------------------------------------------------------- state
VARIABLES
    prog,            \* the entry point being executed
    pc,              \* its position: "call", "loop", "done", "raised", ...
    args,            \* the arguments of the call
    exc,             \* the exception raised ("None": none)
    ret,             \* the value returned
    i,               \* gp_pred_function: loop index (GPs processed so far)
    mu_all,          \* gp_pred_function: accumulator of the means
    pred_sigma_all,  \* gp_pred_function: accumulator of the variances
    jac_mu_all,      \* gp_pred_function: accumulator of the jacobians
    gp,              \* MultiOutputGP: the object's fields
    attr             \* MultiOutputGP: the attribute last read from the result

vars == <<prog, pc, args, exc, ret, i, mu_all, pred_sigma_all, jac_mu_all, gp, attr>>

\* --------------------------------------------------------------- the inputs
Coords == {0, 2}
PredInputs ==
    UNION {[1..n -> {<<c>> : c \in Coords}] : n \in 1..MaxPred}
TrainInput == <<<<0>>, <<2>>>>
Hyps ==
    << [rbf_lengthscales |-> <<1>>, rbf_variance |-> 10, lin_variances |-> <<4>>],
       [rbf_lengthscales |-> <<2>>, rbf_variance |-> 20, lin_variances |-> <<1>>] >>
BetaCols == << <<1, -1>>, <<2, 1>> >>
KInvs == << <<<<1, 0>>, <<0, 1>>>>, <<<<2, -1>>, <<0, 1>>>> >>
KernTypes == {"rbf", "prod_lin_rbf", "matern"}
Cyc(s, k) == s[((k - 1) % Len(s)) + 1]

\* the arguments of gp_pred_function: GP g uses the parameter set sel[g]
FunctionArgs ==
    { [x |-> x, x_train |-> TrainInput,
       beta |-> Mat(Rows(TrainInput), n,
                    [r \in 1..Rows(TrainInput), g \in 1..n |-> BetaCols[sel[g]][r]]),
       hyp |-> SeqOf([g \in 1..n |-> Hyps[sel[g]]], n),
       kern_types |-> kt,
       k_inv_training |-> IF inv THEN Some(SeqOf([g \in 1..n |-> Cyc(KInvs, g)], n)) ELSE None,
       pred_var |-> pv, compute_grads |-> cg] :
      x \in PredInputs, n \in 1..MaxGps, sel \in [1..MaxGps -> 1..Len(Hyps)],
      kt \in UNION {[1..m -> KernTypes] : m \in 1..MaxGps},
      inv \in BOOLEAN, pv \in BOOLEAN, cg \in BOOLEAN }

Idle == <<>>

\* ---------------------------------------------------------- gp_pred_function
\* the state at the head of the loop (lines 134-139)
InitFunction ==
    /\ prog = "gp_pred_function"
    /\ pc = "loop"
    /\ args \in {a \in FunctionArgs : Len(a.kern_types) = Cols(a.beta)}
    /\ exc = "None"
    /\ ret = Idle
    /\ i = 0
    /\ mu_all = <<>>
    /\ pred_sigma_all = <<>>
    /\ jac_mu_all = <<>>
    /\ gp = Idle
    /\ attr = Idle

n_gps == Cols(args.beta)

\* the prediction of GP g (1-based), as iteration g - 1 of the loop computes it
kern_of(g) == _get_kernel_function(args.kern_types[g])
k_inv_of(g) ==
    IF args.k_inv_training # None THEN Some(args.k_inv_training[1][g]) ELSE None
gp_pred_of(g) ==
    gp_pred(args.x, kern_of(g), Column(args.beta, g), args.x_train,
            args.hyp[g], k_inv_of(g), args.pred_var)
jac_mu_of(g) ==
    jacobian_mu(args.x, kern_of(g), Column(args.beta, g), args.x_train, args.hyp[g])

\* line 153: pred_sigma_all = horzcat(pred_sigma, pred_sigma_all)
AccumulateSigma(pred_sigma, all) == horzcat(pred_sigma, all)

\* line 160: mu_all = horzcat(mu_all, mu_1)
AccumulateMu(mu_1, all) == horzcat(all, mu_1)

\* line 166: jac_mu_all = vertcat(jac_mu_all, jac_mu)
AccumulateJac(jac_mu, all) == vertcat(all, jac_mu)

\* the body of the loop for the kernel function kern_i (line 141), the
\* prediction F_1 (lines 148-159) and the jacobian jac_mu (lines 163-165)
Iterate(kern_i, F_1, jac_mu) ==
    IF kern_i = "ValueError"
    THEN /\ pc' = "raised" /\ exc' = "ValueError"
         /\ UNCHANGED <<i, mu_all, pred_sigma_all, jac_mu_all>>
    ELSE IF F_1.exc # "None"
    THEN /\ pc' = "raised" /\ exc' = F_1.exc
         /\ UNCHANGED <<i, mu_all, pred_sigma_all, jac_mu_all>>
    ELSE /\ pred_sigma_all' = IF args.pred_var
                              THEN AccumulateSigma(F_1.pred_sigm, pred_sigma_all)
                              ELSE pred_sigma_all
         /\ mu_all' = AccumulateMu(F_1.pred_mu, mu_all)
         /\ jac_mu_all' = IF args.compute_grads
                          THEN AccumulateJac(jac_mu, jac_mu_all)
                          ELSE jac_mu_all
         /\ i' = i + 1
         /\ UNCHANGED <<pc, exc>>

\* one iteration of the loop over the GPs (lines 140-166)
LoopIteration ==
    /\ prog = "gp_pred_function" /\ pc = "loop" /\ i < n_gps
    /\ Iterate(kern_of(i + 1), gp_pred_of(i + 1), jac_mu_of(i + 1))
    /\ UNCHANGED <<prog, args, ret, gp, attr>>

\* the keys of out_dict (lines 169-173)
OutKeys ==
    {"pred_mu"} \cup (IF args.pred_var THEN {"pred_sigma"} ELSE {})
                \cup (IF args.compute_grads THEN {"jac_mu"} ELSE {})

\* after the loop: out_dict is filled and returned (lines 169-176)
ReturnOutDict ==
    /\ prog = "gp_pred_function" /\ pc = "loop" /\ i = n_gps
    /\ ret' = [key \in OutKeys |->
                 IF key = "pred_mu" THEN mu_all
                 ELSE IF key = "pred_sigma" THEN pred_sigma_all
                 ELSE jac_mu_all]
    /\ pc' = "done"
    /\ UNCHANGED <<prog, args, exc, i, mu_all, pred_sigma_all, jac_mu_all, gp, attr>>

\* ------------------------------------------------------------------ gp_pred
\* every (2 x 2) matrix over {-1, 0, 1}, symmetric or not
KInvAll == {<<<<a, b>>, <<c, d>>>> : a \in {-1, 0, 1}, b \in {-1, 0, 1},
                                    c \in {-1, 0, 1}, d \in {-1, 0, 1}}

PredArgs ==
    { [x |-> x, kern |-> k, beta |-> Transpose(<<BetaCols[h]>>), x_train |-> TrainInput,
       hyp |-> Hyps[h], k_inv_training |-> ki, pred_var |-> pv] :
      x \in PredInputs, k \in {"_k_rbf", "_k_prod_lin_rbf"}, h \in 1..Len(Hyps),
      ki \in {None} \cup {Some(m) : m \in KInvAll}, pv \in BOOLEAN }

InitPred ==
    /\ prog = "gp_pred"
    /\ pc = "call"
    /\ args \in PredArgs
    /\ exc = "None"
    /\ ret = Idle
    /\ i = 0
    /\ mu_all = <<>>
    /\ pred_sigma_all = <<>>
    /\ jac_mu_all = <<>>
    /\ gp = Idle
    /\ attr = Idle

\* the call returns r: (pred_mu, pred_sigm), or pred_mu alone
Returned(r) ==
    /\ exc' = r.exc
    /\ pc' = IF r.exc = "None" THEN "done" ELSE "raised"
    /\ ret' = IF r.exc # "None" THEN Idle
              ELSE IF args.pred_var THEN <<r.pred_mu, r.pred_sigm>>
              ELSE <<r.pred_mu>>

\* a call of gp_pred (lines 86-105)
CallGpPred ==
    /\ prog = "gp_pred" /\ pc = "call"
    /\ Returned(gp_pred(args.x, args.kern, args.beta, args.x_train, args.hyp,
                        args.k_inv_training, args.pred_var))
    /\ UNCHANGED <<prog, args, i, mu_all, pred_sigma_all, jac_mu_all, gp, attr>>

\* ------------------------------------------------------------ MultiOutputGP
\* torch shapes
dim(shape) == Len(shape)
squeeze0(shape) == IF Len(shape) > 0 /\ shape[1] = 1 THEN Tail(shape) ELSE shape
unsqueeze0(shape) == <<1>> \o shape
unsqueeze_last(shape) == shape \o <<1>>
expand(shape, k) == <<k>> \o shape
len(shape) == shape[1]

\* MultiOutputGP.__init__ (lines 161-171): the shape of the training inputs
\* handed to ExactGP.__init__
train_inputs_of(train_x, train_y) ==
    LET y1 == IF dim(train_y) > 1 THEN squeeze0(train_y) ELSE train_y
    IN  IF dim(y1) > 1 THEN expand(train_x, len(y1)) ELSE train_x

\* MultiOutputGP.__init__: the targets handed to ExactGP.__init__
train_targets_of(train_y) ==
    IF dim(train_y) > 1 THEN squeeze0(train_y) ELSE train_y

InitGP ==
    /\ prog = "MultiOutputGP"
    /\ pc = "new"
    /\ args = Idle
    /\ exc = "None"
    /\ ret = Idle
    /\ i = 0
    /\ mu_all = <<>>
    /\ pred_sigma_all = <<>>
    /\ jac_mu_all = <<>>
    /\ gp = Idle
    /\ attr = Idle

\* MultiOutputGP(train_x, train_y, kernel, likelihood, mean): train_x is (n x d),
\* train_y is (n x o), or (n) for a single output; the kernel has o base kernels
Construct ==
    /\ prog = "MultiOutputGP" /\ pc = "new"
    /\ \E n \in 1..MaxSize, d \in 1..MaxSize, o \in 1..MaxSize, flat \in BOOLEAN,
          mean \in {"None", "BatchMean"} :
          /\ flat => o = 1
          /\ LET train_x == <<n, d>>
                 train_y == IF flat THEN <<n>> ELSE <<n, o>>
             IN  /\ args' = [train_x |-> train_x, train_y |-> train_y,
                             n |-> n, d |-> d, o |-> o]
                 /\ gp' = [train_inputs |-> train_inputs_of(train_x, train_y),
                           train_targets |-> train_targets_of(train_y),
                           mean |-> IF mean = "None" THEN "ZeroMean" ELSE mean,
                           batch_size |-> o]
    /\ pc' = "ready"
    /\ UNCHANGED <<prog, exc, ret, i, mu_all, pred_sigma_all, jac_mu_all, attr>>

\* MultiOutputGP.__call__, lines 194-197: the argument as handed on
call_args_of(batch_size, x) ==
    IF batch_size > 1
    THEN expand(IF dim(x) = 1 THEN unsqueeze_last(x) ELSE x, batch_size)
    ELSE x

\* forward (lines 205-207): MultivariateNormal(self.mean(x), self.kernel(x)) for
\* the inputs x of shape (batch x n x d); a 1-d input is a column of n points
forward(x) ==
    LET x2 == IF dim(x) = 1 THEN unsqueeze_last(x) ELSE x
    IN  [batch_shape |-> SubSeq(x2, 1, Len(x2) - 2), n |-> x2[Len(x2) - 1]]

\* an attribute of gpytorch's MultivariateNormal: its shape
normal_getattr(normal, key) ==
    IF key = "covariance_matrix" THEN normal.batch_shape \o <<normal.n, normal.n>>
    ELSE IF key = "batch_shape" THEN normal.batch_shape
    ELSE normal.batch_shape \o <<normal.n>>

\* WrappedNormal.__getattr__ with the dimension added for every key read
WrappedNormal_getattr_always(normal, key) ==
    IF key \in {"mean", "variance", "covariance_matrix"}
    THEN unsqueeze0(normal_getattr(normal, key))
    ELSE normal_getattr(normal, key)

\* WrappedNormal.__getattr__ (lines 125-132)
WrappedNormal_getattr(normal, key) ==
    LET res == normal_getattr(normal, key)
        batch_shape == normal.batch_shape
    IN  IF batch_shape = <<>> /\ key \in {"mean", "variance", "covariance_matrix"}
        THEN unsqueeze0(res)
        ELSE res

\* model(x) (lines 192-203)
Call ==
    /\ prog = "MultiOutputGP" /\ pc \in {"ready", "called", "read"}
    /\ \E n \in 1..MaxSize, sh \in {"n", "nd", "1nd"} :
          /\ sh = "1nd" => gp.batch_size = 1
          /\ LET x == IF sh = "n" THEN <<n>>
                      ELSE IF sh = "nd" THEN <<n, args.d>>
                      ELSE <<1, n, args.d>>
                 cargs == call_args_of(gp.batch_size, x)
                 normal == forward(cargs)
             IN  ret' = [x |-> x, call_args |-> cargs, normal |-> normal,
                         class |-> IF gp.batch_size > 1 THEN "MultivariateNormal"
                                   ELSE "WrappedNormal"]
    /\ pc' = "called"
    /\ attr' = Idle
    /\ UNCHANGED <<prog, args, exc, i, mu_all, pred_sigma_all, jac_mu_all, gp>>

AttrKeys == {"mean", "variance", "covariance_matrix", "stddev", "batch_shape"}

\* an attribute of the object model(x) returned is read
GetAttr ==
    /\ prog = "MultiOutputGP" /\ pc \in {"called", "read"}
    /\ \E key \in AttrKeys :
          attr' = [key |-> key,
                   shape |-> IF ret.class = "WrappedNormal"
                             THEN WrappedNormal_getattr(ret.normal, key)
                             ELSE normal_getattr(ret.normal, key)]
    /\ pc' = "read"
    /\ UNCHANGED <<prog, args, exc, ret, i, mu_all, pred_sigma_all, jac_mu_all, gp>>

\* -------------------------------------------------------------- GPytorchSSM
\* the names bound at module level (lines 4-10 and the definitions)
ModuleGlobals ==
    {"torch", "ModuleList", "gpytorch", "MultivariateNormal", "StateSpaceModel",
     "compute_hessian", "compute_jacobian", "BatchMean", "BatchKernel", "LinearMean",
     "WrappedNormal", "MultiOutputGP", "GPytorchSSM"}

\* the names a method body can read: its parameters and the module's names
Bound(name, params) == name \in params \cup ModuleGlobals

TupleOf(items) == [type |-> "tuple", items |-> items]
PyNone == [type |-> "NoneType", items |-> <<>>]
Raise(e) == [exc |-> e, value |-> PyNone]
Return(v) == [exc |-> "None", value |-> v]

\* torch.stack((a, b), dim=1): both tensors must have the same shape
stack_ok(a, b) == a = b

\* predict (lines 250-288): the else branch evaluates a tuple and returns nothing
predict(states, actions, jacobians, full_cov) ==
    IF ~stack_ok(states, actions) THEN Raise("RuntimeError")
    ELSE IF jacobians
    THEN Return(TupleOf(<<"pred_mean", "pred_var", "jac_mean", "jac_var">>))
    ELSE Return(PyNone)

\* _compute_hessian_mean (lines 227-248): reads the name hessian
_compute_hessian_mean(states, actions) ==
    IF ~stack_ok(states, actions) THEN Raise("RuntimeError")
    ELSE IF ~Bound("hessian", {"self", "states", "actions"}) THEN Raise("NameError")
    ELSE Return("hess_mean")

\* linearize_predict (lines 290-335)
linearize_predict(states, actions, jacobians, full_cov) ==
    LET params == {"self", "states", "actions", "jacobians", "full_cov"}
        n == states[2]
    IN  IF ~Bound("np", params) \/ ~Bound("state", params) THEN Raise("NameError")
        ELSE IF jacobians /\ n > 1 THEN Raise("NotImplementedError")
        ELSE LET out == predict(states, actions, jacobians, FALSE)
             IN  IF out.exc # "None" THEN out
                 ELSE IF jacobians
                 THEN LET hess_mean == _compute_hessian_mean(states, actions)
                      IN  IF hess_mean.exc # "None" THEN hess_mean
                          ELSE Return(TupleOf(SubSeq(out.value.items, 1, 4)
                                              \o <<hess_mean.value>>))
                 ELSE IF out.value = PyNone THEN Raise("TypeError")
                 ELSE Return(TupleOf(SubSeq(out.value.items, 1, 2)))

SSMArgs ==
    { [method |-> me, states |-> <<N, n>>, actions |-> <<N, m>>,
       jacobians |-> j, full_cov |-> f] :
      me \in {"predict", "linearize_predict"}, N \in 1..MaxSize, n \in 1..MaxSize,
      m \in 1..MaxSize, j \in BOOLEAN, f \in BOOLEAN }

InitSSM ==
    /\ prog = "GPytorchSSM"
    /\ pc = "call"
    /\ args \in SSMArgs
    /\ exc = "None"
    /\ ret = Idle
    /\ i = 0
    /\ mu_all = <<>>
    /\ pred_sigma_all = <<>>
    /\ jac_mu_all = <<>>
    /\ gp = Idle
    /\ attr = Idle

Finish(r) ==
    /\ exc' = r.exc
    /\ ret' = r.value
    /\ pc' = IF r.exc = "None" THEN "done" ELSE "raised"
    /\ UNCHANGED <<prog, args, i, mu_all, pred_sigma_all, jac_mu_all, gp, attr>>

\* ssm.predict(states, actions, jacobians, full_cov)
Predict ==
    /\ prog = "GPytorchSSM" /\ pc = "call" /\ args.method = "predict"
    /\ Finish(predict(args.states, args.actions, args.jacobians, args.full_cov))

\* ssm.linearize_predict(states, actions, jacobians, full_cov)
LinearizePredict ==
    /\ prog = "GPytorchSSM" /\ pc = "call" /\ args.method = "linearize_predict"
    /\ Finish(linearize_predict(args.states, args.actions, args.jacobians,
                                args.full_cov))

\* ------------------------------------------------------------------ claims
\* the blocks b[1], ..., b[k] side by side, and one below the other
RECURSIVE HCat(_, _)
HCat(blocks, k) == IF k = 0 THEN <<>> ELSE horzcat(HCat(blocks, k - 1), blocks[k])
RECURSIVE VCat(_, _)
VCat(blocks, k) == IF k = 0 THEN <<>> ELSE vertcat(VCat(blocks, k - 1), blocks[k])

InFunction == prog = "gp_pred_function"
KnownKernels == \A g \in 1..n_gps : args.kern_types[g] \in {"rbf", "prod_lin_rbf"}

\* C1: with pred_var and compute_grads, after every iteration of the loop (and in
\* the dict returned) the accumulators of the means, of the variances and of the
\* jacobians hold the results of the GPs processed so far in one and the same
\* order: block g comes from beta[:, g], hyp[g], kern_types[g], k_inv_training[g].
C1_SameOrder ==
    (InFunction /\ pc \in {"loop", "done"} /\ args.pred_var /\ args.compute_grads) =>
        /\ mu_all = HCat([g \in 1..i |-> gp_pred_of(g).pred_mu], i)
        /\ pred_sigma_all = HCat([g \in 1..i |-> gp_pred_of(g).pred_sigm], i)
        /\ jac_mu_all = VCat([g \in 1..i |-> jac_mu_of(g)], i)
        /\ pc = "done" => /\ ret["pred_mu"] = mu_all
                          /\ ret["pred_sigma"] = pred_sigma_all
                          /\ ret["jac_mu"] = jac_mu_all

InPred == prog = "gp_pred"
KStar == kern_call(args.kern, args.x, args.hyp, Some(args.x_train), FALSE)
KDiag == kern_call(args.kern, args.x, args.hyp, None, TRUE)
KFull == kern_call(args.kern, args.x, args.hyp, Some(args.x), FALSE)
\* K_star . K_inv . K_star^T
Quadratic == mtimes(mtimes(KStar, args.k_inv_training[1]), Transpose(KStar))

\* C2: gp_pred returns mean_p = sum_j K_star[p,j] * beta[j] for every prediction
\* point p and, with pred_var, in row p of the variance the entries of k_diag in
\* that row (a 1 x 1 k_diag counts for every row) less entry [p,p] of
\* K_star . K_inv . K_star^T, for every K_inv, symmetric or not.
C2_PosteriorFormula ==
    (InPred /\ pc = "done") =>
        /\ Rows(ret[1]) = Rows(args.x) /\ Cols(ret[1]) = 1
        /\ \A p \in 1..Rows(args.x) :
              ret[1][p][1] = SumTo([j \in 1..Rows(args.x_train) |-> KStar[p][j] * args.beta[j][1]],
                                   Rows(args.x_train))
        /\ args.pred_var =>
              /\ Len(ret) = 2
              /\ Rows(ret[2]) = Rows(args.x) /\ Cols(ret[2]) = Cols(KDiag)
              /\ \A p \in 1..Rows(args.x) : \A c \in 1..Cols(KDiag) :
                    ret[2][p][c] = At(KDiag, p, c) - Quadratic[p][p]

\* C2 witness: a variance was returned for two prediction points and an inverse
\* that is not symmetric, the quadratic term being non-zero
C2_Witness ==
    /\ InPred /\ pc = "done" /\ args.pred_var /\ Rows(args.x) >= 2
    /\ args.k_inv_training[1] # Transpose(args.k_inv_training[1])
    /\ Quadratic[2][2] # 0

SSMTuple2 == TupleOf(<<"pred_mean", "pred_var">>)
SSMTuple4 == TupleOf(<<"pred_mean", "pred_var", "jac_mean", "jac_var">>)
SSMTuple5 == TupleOf(<<"pred_mean", "pred_var", "jac_mean", "jac_var", "hess_mean">>)
InSSM(method) == prog = "GPytorchSSM" /\ args.method = method /\ pc # "call"

\* C3: predict returns (mean, variance) when jacobians is False and (mean, variance,
\* jacobian_mean, jacobian_variance) when jacobians is True, for every input.
C3_PredictReturns ==
    InSSM("predict") =>
        /\ exc = "None"
        /\ ret = IF args.jacobians THEN SSMTuple4 ELSE SSMTuple2

\* C4: linearize_predict with jacobians raises NotImplementedError exactly when
\* states has more than one row, whatever the state dimension; for one row it
\* returns the five outputs, and without jacobians it returns (mean, variance).
C4_LinearizePredict ==
    InSSM("linearize_predict") =>
        /\ exc = "NotImplementedError" <=> (args.jacobians /\ args.states[1] > 1)
        /\ (args.jacobians /\ args.states[1] = 1) => (exc = "None" /\ ret = SSMTuple5)
        /\ ~args.jacobians => (exc = "None" /\ ret = SSMTuple2)

InGP == prog = "MultiOutputGP"

\* C5: for train_x (n x d) and train_y (n x o) with o > 1 the training inputs of
\* the batch model are train_x once per output: their shape is (o x n x d).
C5_ReplicatedPerOutput ==
    (InGP /\ pc # "new" /\ args.train_y = <<args.n, args.o>> /\ args.o > 1) =>
        gp.train_inputs = <<args.o, args.n, args.d>>

EventDims(key) == IF key = "covariance_matrix" THEN 2 ELSE 1

\* C6: 'mean', 'variance' and 'covariance_matrix' of the object model(x) returns
\* have exactly one batch dimension in front, of the size of the batch, also for
\* a batch of one; and for a batch of more than one the argument was expanded to
\* one copy per batch.
C6_BatchDimension ==
    /\ (InGP /\ pc = "read" /\ attr.key \in {"mean", "variance", "covariance_matrix"}) =>
          /\ Len(attr.shape) = 1 + EventDims(attr.key)
          /\ attr.shape[1] = gp.batch_size
          /\ attr.shape[2] = ret.normal.n
    /\ (InGP /\ pc \in {"called", "read"} /\ gp.batch_size > 1) =>
          /\ ret.call_args[1] = gp.batch_size
          /\ Tail(ret.call_args) = (IF Len(ret.x) = 1 THEN ret.x \o <<1>> ELSE ret.x)

\* C6 witness: the mean of a batch of one was read for an input of two points
\* without a batch dimension, and came with the singular dimension in front
C6_Witness ==
    /\ InGP /\ pc = "read" /\ gp.batch_size = 1 /\ attr.key = "mean"
    /\ ret.x = <<2, args.d>> /\ ret.normal.batch_shape = <<>> /\ attr.shape = <<1, 2>>

MissingInverse == args.pred_var /\ args.k_inv_training = None

\* C7: gp_pred_function ends in a ValueError, and returns no dict, exactly when
\* pred_var is set and k_inv_training is None or some kernel identifier is
\* neither 'rbf' nor 'prod_lin_rbf'; otherwise it returns the dict.
C7_ValueError ==
    /\ (InFunction /\ pc = "raised") =>
          /\ exc = "ValueError" /\ ret = Idle
          /\ MissingInverse \/ ~KnownKernels
    /\ (InFunction /\ (pc = "done" \/ (pc = "loop" /\ i = n_gps))) =>
          /\ exc = "None"
          /\ ~MissingInverse /\ KnownKernels
    /\ (InFunction /\ pc = "done") => DOMAIN ret = OutKeys

\* C7 witness: with known kernels, the variance asked and no inverse given, the
\* ValueError was raised
C7_Witness ==
    /\ InFunction /\ pc = "raised" /\ MissingInverse /\ KnownKernels

\* C8: for both kernels kern(x, hyp, diag_only=True) is one value per point of
\* x, the value for point p being entry [p,p] of kern(x, hyp, y=x), and never an
\* (n x n) matrix.
C8_DiagIsPriorVariance ==
    (InPred /\ pc = "done" /\ args.pred_var) =>
        /\ Cols(KDiag) = 1
        /\ \A p \in 1..Rows(args.x) : At(KDiag, p, 1) = KFull[p][p]


\* ------------------------------------------------------------ specification
Init == InitFunction \/ InitPred \/ InitGP \/ InitSSM
Next ==
    \/ LoopIteration
    \/ ReturnOutDict
    \/ CallGpPred
    \/ Construct
    \/ Call
    \/ GetAttr
    \/ Predict
    \/ LinearizePredict
Spec == Init /\ [][Next]_vars
=============================================================================
